---- MODULE Spec2Model ----
(***************************************************************************)
(* Default appearance providers of the form API                            *)
(* (src/api/form/appearances.ts): normalizeAppearance, componentsToColor,  *)
(* the check box, radio group, button and text field providers, and the    *)
(* default-appearance /Name size Tf pattern.                               *)
(*                                                                         *)
(* Conventions.                                                            *)
(*  - An optional JavaScript value (T | undefined) is a tuple of length 0  *)
(*    (undefined) or 1 (the value).                                        *)
(*  - A thrown TypeError is the tuple Throw, of length 2.                  *)
(*  - A JavaScript array handed to normalizeAppearance is the record       *)
(*    [length, items]; an object is a record over its own keys.            *)
(*  - Numbers are fixed point with three decimals: 0.5 is 500.             *)
(*  - A string that is matched against a pattern is a tuple of one         *)
(*    character strings.                                                   *)
(***************************************************************************)
EXTENDS Integers, Sequences, FiniteSets, TLC

VARIABLES pc, op, args, threw, ret, calls

vars == <<pc, op, args, threw, ret, calls>>

(* ------------------------------ bounds -------------------------------- *)

\* longest color component array that is enumerated
MaxComps == 5
\* largest max length of a text field that is enumerated
MaxLength == 5
\* most lines the multiline layout is let to return
MaxLines == 2

(* ------------------------- JavaScript values -------------------------- *)

\* fixed point unit: the number 1
Unit == 1000

None == <<>>

Some(v) == <<v>>

Throw == <<"TypeError", "TypeError">>

\* a ?? d
Coalesce(a, d) == IF a = None THEN d ELSE a[1]

\* o.k on an optional object: a TypeError when o is undefined
DotChain(o, k) == IF o = None THEN Throw ELSE o[1][k]

\* o?.k, where the member k is itself optional
OptChain(o, k) == IF o = None THEN None ELSE o[1][k]

\* a * b on fixed point numbers
Times(a, b) == (a * b) \div Unit

\* a JavaScript array object
OpArray(items) == [length |-> Len(items), items |-> items]

\* key in obj
HasKey(key, obj) == key \in DOMAIN obj

(* ----------------------------- colors --------------------------------- *)

grayscale(gray) == [type |-> "Grayscale", gray |-> gray]

rgb(red, green, blue) == [type |-> "RGB", red |-> red, green |-> green, blue |-> blue]

cmyk(cyan, magenta, yellow, key) ==
    [type |-> "CMYK", cyan |-> cyan, magenta |-> magenta, yellow |-> yellow, key |-> key]

\* comps?.length
OptLength(comps) == IF comps = None THEN None ELSE Some(Len(comps[1]))

componentsToColorAnyLength(comps, scale) ==
    IF comps = None \/ Len(comps[1]) = 0 THEN None
    ELSE IF Len(comps[1]) < 3 THEN Some(grayscale(Times(comps[1][1], scale)))
    ELSE IF Len(comps[1]) = 3 THEN
        Some(rgb(Times(comps[1][1], scale), Times(comps[1][2], scale),
                 Times(comps[1][3], scale)))
    ELSE Some(cmyk(Times(comps[1][1], scale), Times(comps[1][2], scale),
                   Times(comps[1][3], scale), Times(comps[1][4], scale)))

componentsToColor(comps, scale) ==
    IF OptLength(comps) = Some(1) THEN
        Some(grayscale(Times(comps[1][1], scale)))
    ELSE IF OptLength(comps) = Some(3) THEN
        Some(rgb(Times(comps[1][1], scale), Times(comps[1][2], scale),
                 Times(comps[1][3], scale)))
    ELSE IF OptLength(comps) = Some(4) THEN
        Some(cmyk(Times(comps[1][1], scale), Times(comps[1][2], scale),
                  Times(comps[1][3], scale), Times(comps[1][4], scale)))
    ELSE None

(* ------------------------ normalizeAppearance ------------------------- *)

normalizeAppearanceFilling(appearance) ==
    IF HasKey("normal", appearance)
    THEN [k \in {"normal", "rollover", "down"} |->
            IF HasKey(k, appearance) THEN appearance[k] ELSE appearance.normal]
    ELSE [normal |-> appearance]

normalizeAppearance(appearance) ==
    IF HasKey("normal", appearance) THEN appearance ELSE [normal |-> appearance]

(* ------------------ collaborators outside this file ------------------- *)

\* reduceRotation(degreeAngle = 0): the canonical right angle of a multiple of 90
reduceRotation(degreeAngle) == ((Coalesce(degreeAngle, 0) % 360) \div 90) * 90

\* adjustDimsForRotation: width and height swap at 90 and 270
adjustDimsForRotation(dims, rotation) ==
    IF rotation \in {90, 270}
    THEN [width |-> dims.height, height |-> dims.width]
    ELSE [width |-> dims.width, height |-> dims.height]

\* rotateInPlace({...rectangle, rotation}): the instructions of the transform
rotateInPlace(options) ==
    <<[name |-> "translate", options |-> options],
      [name |-> "rotateDegrees", options |-> options]>>

drawCheckBox(options) == <<[name |-> "drawCheckBox", options |-> options]>>

drawRadioButton(options) == <<[name |-> "drawRadioButton", options |-> options]>>

drawButton(options) == <<[name |-> "drawButton", options |-> options]>>

drawTextField(options) == <<[name |-> "drawTextField", options |-> options]>>

(* --------------------------- widget access ---------------------------- *)

\* bs?.getWidth()
OptWidth(bs) == IF bs = None THEN None ELSE Some(bs[1].width)

\* bs?.getWidth() || 1: the width 0 is falsy
CheckBoxBorderWidthOr(bs) ==
    IF OptWidth(bs) = None \/ OptWidth(bs) = Some(0) THEN Unit ELSE OptWidth(bs)[1]

\* bs?.getWidth() ?? 1
CheckBoxBorderWidth(bs) == Coalesce(OptWidth(bs), Unit)

\* what a call ends with: a value, or a thrown error
Completed(value) == [threw |-> FALSE, value |-> value]

Thrown == [threw |-> TRUE, value |-> None]

WithoutRotation(rectangle, rotation) ==
    [x |-> rectangle.x, y |-> rectangle.y, width |-> rectangle.width,
     height |-> rectangle.height, rotation |-> 0]

\* {...rectangle, rotation}
WithRotation(rectangle, rotation) ==
    [x |-> rectangle.x, y |-> rectangle.y, width |-> rectangle.width,
     height |-> rectangle.height, rotation |-> rotation]

NoDarkening == Unit

\* the factor 0.8 of the down background
DownScale == 800

\* mark thickness 1.5 of the check box
CheckBoxThickness == 1500

\* font size 15 of the button
ButtonFontSize == 15000

black == rgb(0, 0, 0)

(* ------------------------- check box provider ------------------------- *)

defaultCheckBoxAppearanceProvider(widget) ==
    LET rectangle == widget.rectangle
        ap == widget.ap
        bs == widget.bs
        apRotation == OptChain(ap, "rotation")
        apBorderColor == OptChain(ap, "borderColor")
        apBackgroundColor == OptChain(ap, "backgroundColor")
    IN  IF apRotation = Throw \/ apBorderColor = Throw \/ apBackgroundColor = Throw
        THEN Thrown
        ELSE
        LET borderWidth == CheckBoxBorderWidth(bs)
            rotation == reduceRotation(apRotation)
            dims == adjustDimsForRotation(rectangle, rotation)
            rotate == rotateInPlace(WithRotation(rectangle, rotation))
            borderColor == componentsToColor(apBorderColor, Unit)
            normalBackgroundColor == componentsToColor(apBackgroundColor, Unit)
            downBackgroundColor == componentsToColor(apBackgroundColor, DownScale)
            options(color, filled) ==
                [x |-> 0, y |-> 0, width |-> dims.width, height |-> dims.height,
                 thickness |-> CheckBoxThickness, borderWidth |-> borderWidth,
                 borderColor |-> borderColor, color |-> color,
                 markColor |-> borderColor, filled |-> filled]
        IN  Completed(
              [normal |->
                 [checked |->
                    OpArray(rotate \o drawCheckBox(options(normalBackgroundColor, TRUE))),
                  unchecked |->
                    OpArray(rotate \o drawCheckBox(options(normalBackgroundColor, FALSE)))],
               down |->
                 [checked |->
                    OpArray(rotate \o drawCheckBox(options(downBackgroundColor, TRUE))),
                  unchecked |->
                    OpArray(rotate \o drawCheckBox(options(downBackgroundColor, FALSE)))]])

(* ------------------------ radio group provider ------------------------ *)

defaultRadioGroupAppearanceProvider(widget) ==
    LET rectangle == widget.rectangle
        ap == widget.ap
        bs == widget.bs
        apRotation == OptChain(ap, "rotation")
        apBorderColor == OptChain(ap, "borderColor")
        apBackgroundColor == OptChain(ap, "backgroundColor")
    IN  IF apRotation = Throw \/ apBorderColor = Throw \/ apBackgroundColor = Throw
        THEN Thrown
        ELSE
        LET borderWidth == OptWidth(bs)
            rotation == reduceRotation(apRotation)
            dims == adjustDimsForRotation(rectangle, rotation)
            rotate == rotateInPlace(WithRotation(rectangle, rotation))
            borderColor == componentsToColor(apBorderColor, Unit)
            normalBackgroundColor == componentsToColor(apBackgroundColor, Unit)
            downBackgroundColor == componentsToColor(apBackgroundColor, DownScale)
            options(color, filled) ==
                [x |-> dims.width \div 2, y |-> dims.height \div 2,
                 width |-> dims.width, height |-> dims.height,
                 borderWidth |-> Coalesce(borderWidth, 0),
                 borderColor |-> borderColor, color |-> color,
                 dotColor |-> borderColor, filled |-> filled]
        IN  Completed(
              [normal |->
                 [selected |->
                    OpArray(rotate \o drawRadioButton(options(normalBackgroundColor, TRUE))),
                  unselected |->
                    OpArray(rotate \o drawRadioButton(options(normalBackgroundColor, FALSE)))],
               down |->
                 [selected |->
                    OpArray(rotate \o drawRadioButton(options(downBackgroundColor, TRUE))),
                  unselected |->
                    OpArray(rotate \o drawRadioButton(options(downBackgroundColor, FALSE)))]])

(* --------------------------- button provider -------------------------- *)

defaultButtonAppearanceProvider(widget, font) ==
    LET rectangle == widget.rectangle
        ap == widget.ap
        bs == widget.bs
        captions == OptChain(ap, "captions")
        apRotation == OptChain(ap, "rotation")
        apBorderColor == OptChain(ap, "borderColor")
        apBackgroundColor == OptChain(ap, "backgroundColor")
    IN  IF \/ captions = Throw \/ apRotation = Throw
           \/ apBorderColor = Throw \/ apBackgroundColor = Throw
        THEN Thrown
        ELSE
        LET captionsNormal == OptChain(captions, "normal")
            captionsDown == OptChain(captions, "down")
        IN  IF captionsNormal = Throw \/ captionsDown = Throw THEN Thrown
            ELSE
            LET normalText == Coalesce(captionsNormal, "")
                downText == Coalesce(captionsDown, normalText)
                borderWidth == OptWidth(bs)
                rotation == reduceRotation(apRotation)
                dims == adjustDimsForRotation(rectangle, rotation)
                rotate == rotateInPlace(WithRotation(rectangle, rotation))
                borderColor == componentsToColor(apBorderColor, Unit)
                normalBackgroundColor == componentsToColor(apBackgroundColor, Unit)
                downBackgroundColor == componentsToColor(apBackgroundColor, DownScale)
                fontSize == ButtonFontSize
                options(color, text) ==
                    [x |-> 0, y |-> 0, width |-> dims.width, height |-> dims.height,
                     borderWidth |-> Coalesce(borderWidth, 0),
                     borderColor |-> borderColor,
                     textColor |-> Coalesce(borderColor, black),
                     font |-> font.name, fontSize |-> fontSize,
                     encodeText |-> [font |-> font.name],
                     widthOfText |-> [font |-> font.name, size |-> fontSize],
                     heightOfText |-> [font |-> font.name, size |-> fontSize],
                     color |-> color, text |-> text]
            IN  Completed(
                  [normal |->
                     OpArray(rotate \o drawButton(options(normalBackgroundColor, normalText))),
                   down |->
                     OpArray(rotate \o drawButton(options(downBackgroundColor, downText)))])

(* ---------------------- default appearance string -------------------- *)

\* the character class [\0\t\n\f\r\ ]; "NUL" stands for the character \0
WhiteSpace == {"NUL", "\t", "\n", "\f", "\r", " "}

\* the character class \d
Digits == {"0", "1", "2", "3", "4", "5", "6", "7", "8", "9"}

DigitValue(c) ==
    CASE c = "0" -> 0 [] c = "1" -> 1 [] c = "2" -> 2 [] c = "3" -> 3
      [] c = "4" -> 4 [] c = "5" -> 5 [] c = "6" -> 6 [] c = "7" -> 7
      [] c = "8" -> 8 [] c = "9" -> 9

\* how many characters a greedy quantifier takes from position i: those
\* in the class chars, or those outside it when the class is negated
Span(s, i, chars, negated) ==
    CHOOSE n \in 0..(Len(s) + 1 - i) :
        /\ \A k \in i..(i + n - 1) : (s[k] \in chars) # negated
        /\ (i + n > Len(s) \/ (s[i + n] \in chars) = negated)

\* [\0\t\n\f\r\ ]+Tf at position q
TfTail(s, q) ==
    LET w == Span(s, q, WhiteSpace, FALSE)
    IN  /\ w >= 1
        /\ q + w + 1 <= Len(s)
        /\ s[q + w] = "T"
        /\ s[q + w + 1] = "f"

SizeLiteralEndsDigitsOnly(s, p) ==
    LET d1 == Span(s, p, Digits, FALSE)
    IN  IF d1 >= 1 THEN <<p + d1>> ELSE <<>>

\* (\d*\.\d+|\d+) at position p: where each alternative that matches ends,
\* in the order the alternatives are tried
SizeLiteralEnds(s, p) ==
    LET d1 == Span(s, p, Digits, FALSE)
        hasDot == p + d1 <= Len(s) /\ s[p + d1] = "."
        d2 == IF hasDot THEN Span(s, p + d1 + 1, Digits, FALSE) ELSE 0
    IN  (IF hasDot /\ d2 >= 1 THEN <<p + d1 + 1 + d2>> ELSE <<>>)
        \o (IF d1 >= 1 THEN <<p + d1>> ELSE <<>>)

\* tfRegex at position i, once the name and the spaces after it are
\* matched: the size literal and the tail; the groups [name, size]
MatchSize(s, i, p1, p2, ends) ==
    LET good == {j \in 1..Len(ends) : TfTail(s, ends[j])}
    IN  IF good = {} THEN None
        ELSE Some([name |-> SubSeq(s, i + 1, p1 - 1),
                   size |-> SubSeq(s, p2, ends[CHOOSE m \in good : \A o \in good : m <= o] - 1)])

\* tfRegex at position i, once the name is matched: the n2 spaces after it
MatchSpaces(s, i, p1, n2) ==
    IF n2 = 0 THEN None ELSE MatchSize(s, i, p1, p1 + n2, SizeLiteralEnds(s, p1 + n2))

\* tfRegex at position i, once the slash is matched: the n1 characters of the name
MatchName(s, i, n1) ==
    IF n1 = 0 THEN None
    ELSE MatchSpaces(s, i, i + 1 + n1, Span(s, i + 1 + n1, WhiteSpace, FALSE))

\* tfRegex tried at position i: the groups [name, size] of the match, if any
MatchAt(s, i) ==
    IF s[i] # "/" THEN None ELSE MatchName(s, i, Span(s, i + 1, WhiteSpace, TRUE))

\* da.match(tfRegex): the match that starts leftmost
tfRegex(da) ==
    LET hits == {i \in 1..Len(da) : MatchAt(da, i) # None}
    IN  IF hits = {} THEN None
        ELSE MatchAt(da, CHOOSE i \in hits : \A h \in hits : i <= h)

RECURSIVE DigitsValue(_)
DigitsValue(ds) ==
    IF ds = <<>> THEN 0
    ELSE DigitsValue(SubSeq(ds, 1, Len(ds) - 1)) * 10 + DigitValue(ds[Len(ds)])

RECURSIVE PowerOfTen(_)
PowerOfTen(n) == IF n = 0 THEN 1 ELSE 10 * PowerOfTen(n - 1)

\* the decimal digits of 2^1024 - 2^970, the least integer that Number
\* rounds to Infinity
DoubleOverflowDigits ==
    <<
      1, 7, 9, 7, 6, 9, 3, 1, 3, 4, 8, 6, 2, 3, 1, 5, 8, 0, 7, 9, 3, 7,
      2, 8, 9, 7, 1, 4, 0, 5, 3, 0, 3, 4, 1, 5, 0, 7, 9, 9, 3, 4, 1, 3,
      2, 7, 1, 0, 0, 3, 7, 8, 2, 6, 9, 3, 6, 1, 7, 3, 7, 7, 8, 9, 8, 0,
      4, 4, 4, 9, 6, 8, 2, 9, 2, 7, 6, 4, 7, 5, 0, 9, 4, 6, 6, 4, 9, 0,
      1, 7, 9, 7, 7, 5, 8, 7, 2, 0, 7, 0, 9, 6, 3, 3, 0, 2, 8, 6, 4, 1,
      6, 6, 9, 2, 8, 8, 7, 9, 1, 0, 9, 4, 6, 5, 5, 5, 5, 4, 7, 8, 5, 1,
      9, 4, 0, 4, 0, 2, 6, 3, 0, 6, 5, 7, 4, 8, 8, 6, 7, 1, 5, 0, 5, 8,
      2, 0, 6, 8, 1, 9, 0, 8, 9, 0, 2, 0, 0, 0, 7, 0, 8, 3, 8, 3, 6, 7,
      6, 2, 7, 3, 8, 5, 4, 8, 4, 5, 8, 1, 7, 7, 1, 1, 5, 3, 1, 7, 6, 4,
      4, 7, 5, 7, 3, 0, 2, 7, 0, 0, 6, 9, 8, 5, 5, 5, 7, 1, 3, 6, 6, 9,
      5, 9, 6, 2, 2, 8, 4, 2, 9, 1, 4, 8, 1, 9, 8, 6, 0, 8, 3, 4, 9, 3,
      6, 4, 7, 5, 2, 9, 2, 7, 1, 9, 0, 7, 4, 1, 6, 8, 4, 4, 4, 3, 6, 5,
      5, 1, 0, 7, 0, 4, 3, 4, 2, 7, 1, 1, 5, 5, 9, 6, 9, 9, 5, 0, 8, 0,
      9, 3, 0, 4, 2, 8, 8, 0, 1, 7, 7, 9, 0, 4, 1, 7, 4, 4, 9, 7, 7, 9,
      2
    >>

\* whether the digits ds are not below those of limit, of the same length
NotBelow(ds, limit) ==
    LET differ == {j \in 1..Len(ds) : DigitValue(ds[j]) # limit[j]}
    IN  \/ differ = {}
        \/ LET j == CHOOSE d \in differ : \A e \in differ : d <= e
           IN  DigitValue(ds[j]) > limit[j]

\* whether Number(lit) is Infinity, for a literal of tfRegex
RoundsToInfinity(lit) ==
    LET int == Span(lit, 1, Digits, FALSE)
        zeros == Span(lit, 1, {"0"}, FALSE)
        digits == SubSeq(lit, zeros + 1, int)
    IN  \/ Len(digits) > Len(DoubleOverflowDigits)
        \/ /\ Len(digits) = Len(DoubleOverflowDigits)
           /\ NotBelow(digits, DoubleOverflowDigits)

\* Number(literal) with isFinite of it: undefined gives NaN, which is not finite
Number(literal) ==
    IF literal = None THEN [finite |-> FALSE, value |-> 0]
    ELSE IF RoundsToInfinity(literal[1]) THEN [finite |-> FALSE, value |-> 0]
    ELSE
    LET lit == literal[1]
        int == Span(lit, 1, Digits, FALSE)
        frac == SubSeq(lit, int + 2, Len(lit))
    IN  [finite |-> TRUE,
         value |-> DigitsValue(SubSeq(lit, 1, int)) * Unit
                   + (DigitsValue(frac) * Unit) \div PowerOfTen(Len(frac))]

(* ------------------------- text layout strategies --------------------- *)

\* layoutMultilineText: what the layout answers is drawn by the caller
layoutMultilineText(text, options, answer) ==
    [lines |-> [i \in 1..answer.lines |-> [text |-> text, x |-> 0, y |-> i]],
     fontSize |-> answer.fontSize]

\* layoutCombedText: one cell for each of the cellCount cells
layoutCombedText(text, options, answer) ==
    [cells |-> [i \in 1..options.cellCount |-> [text |-> text, x |-> i, y |-> 0]],
     fontSize |-> answer.fontSize]

\* layoutSinglelineText: one line
layoutSinglelineText(text, options, answer) ==
    [line |-> [text |-> text, x |-> 0, y |-> 0], fontSize |-> answer.fontSize]

(* -------------------------- text field provider ----------------------- *)

TextFieldUsesNoCombed(textField) ==
    IF textField.multiline THEN "multiline" ELSE "singleline"

TextFieldUsesCombedFirst(textField) ==
    IF textField.evenlySpaced THEN "combed"
    ELSE IF textField.multiline THEN "multiline"
    ELSE "singleline"

\* the if / else if / else of the provider
TextFieldUses(textField) ==
    IF textField.multiline THEN "multiline"
    ELSE IF textField.evenlySpaced THEN "combed"
    ELSE "singleline"

\* (da.match(tfRegex) ?? [])[2]
Group2(daMatch) == IF daMatch = None THEN None ELSE Some(daMatch[1].size)

\* isFinite(n) ? n : undefined
FiniteOrUndefined(n) == IF n.finite THEN Some(n.value) ELSE None

\* the declared font size of the default appearance string
defaultFontSize(textField) ==
    FiniteOrUndefined(
        Number(Group2(tfRegex(Coalesce(textField.defaultAppearance, <<>>)))))

\* the provider from the declared font size on
TextFieldAppearance(textField, widget, font, answer, declaredSize) ==
    LET rectangle == widget.rectangle
        ap == widget.ap
        bs == widget.bs
        text == Coalesce(textField.text, "")
        apRotation == OptChain(ap, "rotation")
        apBorderColor == OptChain(ap, "borderColor")
        apBackgroundColor == OptChain(ap, "backgroundColor")
    IN  IF apRotation = Throw \/ apBorderColor = Throw \/ apBackgroundColor = Throw
        THEN [threw |-> TRUE, value |-> None, calls |-> <<>>]
        ELSE
        LET borderWidth == OptWidth(bs)
            rotation == reduceRotation(apRotation)
            dims == adjustDimsForRotation(rectangle, rotation)
            rotate == rotateInPlace(WithRotation(rectangle, rotation))
            borderColor == componentsToColor(apBorderColor, Unit)
            normalBackgroundColor == componentsToColor(apBackgroundColor, Unit)
            bounds == [x |-> 0, y |-> 0, width |-> dims.width, height |-> dims.height]
            uses == TextFieldUses(textField)
            layoutOptions ==
                IF uses = "combed"
                THEN [fontSize |-> declaredSize, font |-> font.name, bounds |-> bounds,
                      cellCount |-> Coalesce(textField.maxLength, 0)]
                ELSE [alignment |-> textField.alignment, fontSize |-> declaredSize,
                      font |-> font.name, bounds |-> bounds]
            layout ==
                IF uses = "multiline" THEN layoutMultilineText(text, layoutOptions, answer)
                ELSE IF uses = "combed" THEN layoutCombedText(text, layoutOptions, answer)
                ELSE layoutSinglelineText(text, layoutOptions, answer)
            textLines ==
                IF uses = "multiline" THEN layout.lines
                ELSE IF uses = "combed" THEN layout.cells
                ELSE <<layout.line>>
            fontSize == layout.fontSize
            options ==
                [x |-> 0, y |-> 0, width |-> dims.width, height |-> dims.height,
                 borderWidth |-> Coalesce(borderWidth, 0),
                 borderColor |-> borderColor,
                 textColor |-> Coalesce(borderColor, black),
                 font |-> font.name, fontSize |-> fontSize,
                 color |-> normalBackgroundColor, textLines |-> textLines]
        IN  [threw |-> FALSE,
             value |-> OpArray(rotate \o drawTextField(options)),
             calls |-> <<[fn |-> uses, text |-> text, options |-> layoutOptions,
                          returned |-> layout]>>]

defaultTextFieldAppearanceProvider(textField, widget, font, answer) ==
    TextFieldAppearance(textField, widget, font, answer, defaultFontSize(textField))

(* ------------------------------ inputs -------------------------------- *)

\* component values 0, 0.5 and 1
ComponentValues == {0, 500, 1000}

Scales == {DownScale, Unit}

SeqsUpTo(S, n) == UNION {[1..m -> S] : m \in 0..n}

ComponentArrays == {None} \cup {Some(a) : a \in SeqsUpTo(ComponentValues, MaxComps)}

\* contents T: operator arrays and check box pairs
Contents ==
    {OpArray(<<>>), OpArray(<<"q", "Q">>),
     [checked |-> OpArray(<<"q">>), unchecked |-> OpArray(<<>>)]}

Mappings ==
    UNION {[{"normal"} \cup D -> Contents] : D \in SUBSET {"rollover", "down"}}

Appearances == Contents \cup Mappings

Rectangles ==
    {[x |-> 3 * Unit, y |-> 4 * Unit, width |-> 20 * Unit, height |-> 10 * Unit],
     [x |-> 0, y |-> 0, width |-> 20 * Unit, height |-> 20 * Unit]}

Rotations == {None} \cup {Some(d) : d \in {0, 90, 180, 270, 450, -90}}

BorderColors == {None, Some(<<0>>), Some(<<1000, 0, 0>>)}

BackgroundColors ==
    {None} \cup {Some([i \in 1..n |-> v]) : n \in 0..MaxComps, v \in {500, 1000}}

NoCaptions == {None}

Captions ==
    {None} \cup
    {Some([normal |-> n, down |-> d]) : n \in {None, Some("OK")}, d \in {None, Some("Dn")}}

Characteristics(rotations, borderColors, backgroundColors, captions) ==
    {None} \cup
    {Some([rotation |-> r, borderColor |-> bc, backgroundColor |-> bg, captions |-> c]) :
        r \in rotations, bc \in borderColors, bg \in backgroundColors, c \in captions}

BorderStyles == {None} \cup {Some([width |-> w]) : w \in {0, Unit, 2 * Unit}}

Widgets(rectangles, aps) ==
    [rectangle : rectangles, ap : aps, bs : BorderStyles]

CheckBoxWidgets ==
    Widgets(Rectangles, Characteristics(Rotations, BorderColors, BackgroundColors, NoCaptions))

ButtonWidgets ==
    Widgets({CHOOSE r \in Rectangles : r.x # 0},
            Characteristics({None, Some(90), Some(180)}, {None, Some(<<0>>)},
                            BackgroundColors, Captions))

TextFieldWidgets ==
    Widgets({CHOOSE r \in Rectangles : r.x # 0},
            Characteristics({None, Some(270)}, {None, Some(<<1000, 0, 0>>)},
                            {None, Some(<<500>>)}, NoCaptions))

Fonts == {[name |-> "Helv"]}

\* "/Helv 12 Tf", "/HeBo 8.00 Tf", "garbage"
Helv12 == <<"/", "H", "e", "l", "v", " ", "1", "2", " ", "T", "f">>

HeBo8 == <<"/", "H", "e", "B", "o", " ", "8", ".", "0", "0", " ", "T", "f">>

Garbage == <<"g", "a", "r", "b", "a", "g", "e">>

\* strings assembled as prefix, slash, name, spaces, size, spaces, tag
AssembledStrings ==
    {pre \o slash \o name \o sp1 \o size \o sp2 \o tag :
        pre \in {<<>>, <<"q", " ">>, <<"/", "F", " ", "3", " ", "T", "f", " ">>,
                 <<"/", "F", " ", "T", "f", " ">>},
        slash \in {<<"/">>, <<>>},
        name \in {<<"H">>, <<"a", "/", "b">>, <<>>},
        sp1 \in {<<" ">>, <<"\t", "\n">>, <<>>},
        size \in {<<"1", "2">>, <<"8", ".", "0", "0">>, <<".", "5">>, <<"0">>,
                  <<>>, <<"-", "3">>, <<"x">>, <<"1", ".">>, <<"1", ".", "2", ".", "3">>},
        sp2 \in {<<" ">>, <<"NUL", "\r", "\f">>, <<>>},
        tag \in {<<"T", "f">>, <<"T">>, <<"t", "f">>, <<"T", "f", " ", "g">>}}

DigitCharacter(n) == <<"0", "1", "2", "3", "4", "5", "6", "7", "8", "9">>[n + 1]

\* size literals too large for a double: 2^1024 - 2^970 and 10^309
HugeSizes ==
    {[i \in 1..Len(DoubleOverflowDigits) |-> DigitCharacter(DoubleOverflowDigits[i])],
     [i \in 1..(Len(DoubleOverflowDigits) + 1) |-> IF i = 1 THEN "1" ELSE "0"]}

HugeSizeStrings == {<<"/", "H", " ">> \o size \o <<" ", "T", "f">> : size \in HugeSizes}

DefaultAppearances ==
    {None, Some(<<>>), Some(Helv12), Some(HeBo8), Some(Garbage)}
    \cup {Some(s) : s \in AssembledStrings \cup HugeSizeStrings}

FewDefaultAppearances == {None, Some(Helv12), Some(Garbage)}

TextFields(das, texts, flags, maxLengths, alignments) ==
    [defaultAppearance : das, text : texts, multiline : flags, evenlySpaced : flags,
     maxLength : maxLengths, alignment : alignments]

\* the text field and widget of a call: every default appearance on a plain
\* field, and every kind of field with a few default appearances
TextFieldInputs ==
    (TextFields(DefaultAppearances, {None}, {FALSE}, {None}, {"Left"})
        \X {CHOOSE w \in TextFieldWidgets : w.ap = None /\ w.bs = None})
    \cup
    (TextFields(FewDefaultAppearances, {None, Some(""), Some("AB")}, BOOLEAN,
                {None} \cup {Some(n) : n \in 0..MaxLength}, {"Center"})
        \X TextFieldWidgets)

\* what a layout can answer: how many lines (multiline) and which font size
LayoutAnswers == [lines : 1..MaxLines, fontSize : {7 * Unit, 12 * Unit}]

(* ------------------------------ actions ------------------------------- *)

Init ==
    /\ pc = "idle"
    /\ op = "none"
    /\ args = None
    /\ threw = FALSE
    /\ ret = None
    /\ calls = <<>>

CallNormalizeAppearance ==
    /\ pc = "idle"
    /\ \E appearance \in Appearances :
        /\ args' = [appearance |-> appearance]
        /\ ret' = normalizeAppearance(appearance)
    /\ threw' = FALSE
    /\ op' = "normalizeAppearance"
    /\ pc' = "returned"
    /\ calls' = <<>>

CallComponentsToColor ==
    /\ pc = "idle"
    /\ \E comps \in ComponentArrays, scale \in Scales :
        /\ args' = [comps |-> comps, scale |-> scale]
        /\ ret' = componentsToColor(comps, scale)
    /\ threw' = FALSE
    /\ op' = "componentsToColor"
    /\ pc' = "returned"
    /\ calls' = <<>>

CallCheckBoxProvider ==
    /\ pc = "idle"
    /\ \E widget \in CheckBoxWidgets :
        LET r == defaultCheckBoxAppearanceProvider(widget)
        IN  /\ args' = [widget |-> widget]
            /\ threw' = r.threw
            /\ ret' = r.value
    /\ op' = "checkBox"
    /\ pc' = "returned"
    /\ calls' = <<>>

CallRadioGroupProvider ==
    /\ pc = "idle"
    /\ \E widget \in CheckBoxWidgets :
        LET r == defaultRadioGroupAppearanceProvider(widget)
        IN  /\ args' = [widget |-> widget]
            /\ threw' = r.threw
            /\ ret' = r.value
    /\ op' = "radioGroup"
    /\ pc' = "returned"
    /\ calls' = <<>>

CallButtonProvider ==
    /\ pc = "idle"
    /\ \E widget \in ButtonWidgets, font \in Fonts :
        LET r == defaultButtonAppearanceProvider(widget, font)
        IN  /\ args' = [widget |-> widget, font |-> font]
            /\ threw' = r.threw
            /\ ret' = r.value
    /\ op' = "button"
    /\ pc' = "returned"
    /\ calls' = <<>>

CallTextFieldProvider ==
    /\ pc = "idle"
    /\ \E input \in TextFieldInputs, font \in Fonts, answer \in LayoutAnswers :
        LET r == defaultTextFieldAppearanceProvider(input[1], input[2], font, answer)
        IN  /\ args' = [textField |-> input[1], widget |-> input[2], font |-> font]
            /\ threw' = r.threw
            /\ ret' = r.value
            /\ calls' = r.calls
    /\ op' = "textField"
    /\ pc' = "returned"

\* the caller takes the result; nothing is kept from one call to the next
Return ==
    /\ pc = "returned"
    /\ pc' = "idle"
    /\ op' = "none"
    /\ args' = None
    /\ threw' = FALSE
    /\ ret' = None
    /\ calls' = <<>>

Next ==
    \/ CallNormalizeAppearance
    \/ CallComponentsToColor
    \/ CallCheckBoxProvider
    \/ CallRadioGroupProvider
    \/ CallButtonProvider
    \/ CallTextFieldProvider
    \/ Return

Spec == Init /\ [][Next]_vars

(* ------------------------------ claims -------------------------------- *)

Returned(o) == pc = "returned" /\ op = o

OptionalStates == {"rollover", "down"}

\* C1: normalizeAppearance wraps a bare value as {normal: value} and nothing
\* else; of a mapping it keeps normal, and keeps rollover and down exactly
\* when they were given, with their values; it fills in no missing state, and
\* normalizing its result again changes nothing.
C1_NormalizeKeepsWhatWasGiven ==
    Returned("normalizeAppearance") =>
        LET a == args.appearance
        IN  /\ ~threw
            /\ ~HasKey("normal", a) => (DOMAIN ret = {"normal"} /\ ret.normal = a)
            /\ HasKey("normal", a) =>
                /\ ret.normal = a.normal
                /\ \A k \in OptionalStates :
                    /\ HasKey(k, ret) <=> HasKey(k, a)
                    /\ HasKey(k, a) => ret[k] = a[k]
            /\ normalizeAppearance(ret) = ret

C1_Witness ==
    /\ Returned("normalizeAppearance")
    /\ HasKey("normal", args.appearance)
    /\ HasKey("rollover", args.appearance)
    /\ ~HasKey("down", args.appearance)
    /\ HasKey("rollover", ret)
    /\ ~HasKey("down", ret)

NumComponents(color) == Cardinality(DOMAIN color \ {"type"})

\* C2: componentsToColor never raises; no array, or one of length 0, 2, 5 or
\* more, gives no color; length 1 gives grayscale, 3 RGB, 4 CMYK, each value
\* being the component times the scale; a color has as many components as
\* the array.
C2_ColorByLength ==
    Returned("componentsToColor") =>
        LET c == args.comps
            sc == args.scale
            n == IF c = None THEN 0 ELSE Len(c[1])
            v(i) == (c[1][i] * sc) \div 1000
        IN  /\ ~threw
            /\ n \notin {1, 3, 4} => ret = None
            /\ n = 1 => ret = Some([type |-> "Grayscale", gray |-> v(1)])
            /\ n = 3 => ret = Some([type |-> "RGB", red |-> v(1), green |-> v(2),
                                    blue |-> v(3)])
            /\ n = 4 => ret = Some([type |-> "CMYK", cyan |-> v(1), magenta |-> v(2),
                                    yellow |-> v(3), key |-> v(4)])
            /\ ret # None => NumComponents(ret[1]) = n

C2_Witness ==
    /\ Returned("componentsToColor")
    /\ args.comps = Some(<<500, 1000, 0, 500>>)
    /\ args.scale = 800
    /\ ret = Some([type |-> "CMYK", cyan |-> 400, magenta |-> 800, yellow |-> 0,
                   key |-> 400])

\* the instruction sequences a provider returned for one state
SequencesOf(o, r, state) ==
    IF o = "checkBox" THEN {r[state].checked, r[state].unchecked}
    ELSE IF o = "radioGroup" THEN {r[state].selected, r[state].unselected}
    ELSE IF o = "button" THEN {r[state]}
    ELSE IF state = "normal" THEN {r} ELSE {}

AllSequences(o, r) == SequencesOf(o, r, "normal") \cup SequencesOf(o, r, "down")

\* the options the builder of a sequence was given
BuilderOptions(sequence) == sequence.items[sequence.length].options

TwoStateProviders == {"checkBox", "radioGroup", "button"}

Providers == TwoStateProviders \cup {"textField"}

BackgroundComponents(widget) ==
    IF widget.ap = None THEN None ELSE widget.ap[1].backgroundColor

\* C3: in the check box, radio group and button providers the background of
\* every down sequence is the widget's background components resolved with
\* scale 0.8 and that of every normal sequence the same components resolved
\* with scale 1: the down background is absent exactly when the normal one
\* is, is in the same color model, and each component is 0.8 times the normal
\* one; components [0.5] give grayscale 0.5 and grayscale 0.4.
C3_DownBackgroundIsDarkenedNormal ==
    (pc = "returned" /\ op \in TwoStateProviders /\ ~threw) =>
        LET bg == BackgroundComponents(args.widget)
        IN  \A n \in SequencesOf(op, ret, "normal"), d \in SequencesOf(op, ret, "down") :
                LET nc == BuilderOptions(n).color
                    dc == BuilderOptions(d).color
                IN  /\ nc = componentsToColor(bg, 1000)
                    /\ dc = componentsToColor(bg, 800)
                    /\ dc = None <=> nc = None
                    /\ dc # None =>
                        /\ dc[1].type = nc[1].type
                        /\ DOMAIN dc[1] = DOMAIN nc[1]
                        /\ \A f \in DOMAIN dc[1] \ {"type"} :
                            dc[1][f] * 10 = nc[1][f] * 8
                    /\ bg = Some(<<500>>) =>
                        /\ nc = Some([type |-> "Grayscale", gray |-> 500])
                        /\ dc = Some([type |-> "Grayscale", gray |-> 400])

C3_Witness ==
    /\ Returned("radioGroup")
    /\ ~threw
    /\ BackgroundComponents(args.widget) = Some(<<1000, 1000, 1000>>)
    /\ BuilderOptions(ret.down.selected).color =
        Some([type |-> "RGB", red |-> 800, green |-> 800, blue |-> 800])
    /\ BuilderOptions(ret.normal.selected).color =
        Some([type |-> "RGB", red |-> 1000, green |-> 1000, blue |-> 1000])

\* the declared font size the text field provider handed to the layout
DeclaredSize == calls[1].options.fontSize

\* the default appearance string of the call, '' when there is none
GivenString ==
    IF args.textField.defaultAppearance = None THEN <<>>
    ELSE args.textField.defaultAppearance[1]

AllIn(s, from, to, chars) == \A k \in from..to : s[k] \in chars

NoneIn(s, from, to, chars) == \A k \in from..to : s[k] \notin chars

\* digits, or optional digits, a dot and digits
IsNumericLiteral(l) ==
    \/ Len(l) >= 1 /\ AllIn(l, 1, Len(l), Digits)
    \/ \E k \in 1..(Len(l) - 1) :
        /\ l[k] = "."
        /\ AllIn(l, 1, k - 1, Digits)
        /\ AllIn(l, k + 1, Len(l), Digits)

\* '/' name spaces literal spaces 'Tf' occurs in s from position i, the
\* literal being s[from..to]
OccursAt(s, i, from, to) ==
    /\ s[i] = "/"
    /\ from <= to
    /\ \E a \in 1..(from - i - 2) :
        /\ NoneIn(s, i + 1, i + a, WhiteSpace)
        /\ AllIn(s, i + a + 1, from - 1, WhiteSpace)
    /\ \E d \in 1..(Len(s) - to - 2) :
        /\ AllIn(s, to + 1, to + d, WhiteSpace)
        /\ s[to + d + 1] = "T"
        /\ s[to + d + 2] = "f"
    /\ IsNumericLiteral(SubSeq(s, from, to))

Occurrences(s) ==
    {o \in {i \in 1..Len(s) : s[i] = "/"} \X (1..Len(s)) \X (1..Len(s)) :
        OccursAt(s, o[1], o[2], o[3])}

\* the value of a numeric literal, digit by digit from its decimal point
RECURSIVE PlaceSum(_, _, _)
PlaceSum(l, point, j) ==
    IF j > Len(l) THEN 0
    ELSE PlaceSum(l, point, j + 1)
         + (IF j < point THEN DigitValue(l[j]) * PowerOfTen(point - 1 - j) * 1000
            ELSE IF j > point THEN (DigitValue(l[j]) * 1000) \div PowerOfTen(j - point)
            ELSE 0)

LiteralValue(l) ==
    LET points == {k \in 1..Len(l) : l[k] = "."}
    IN  PlaceSum(l, IF points = {} THEN Len(l) + 1 ELSE CHOOSE k \in points : TRUE, 1)

\* the literal of the first of the occurrences occ in s
FirstLiteral(s, occ) ==
    LET first == CHOOSE o \in occ : \A q \in occ : o[1] <= q[1]
    IN  SubSeq(s, first[2], first[3])

\* C4 as stated: the declared font size of the text field provider is the
\* number of the first '/name size Tf' occurrence in the default appearance
\* string ('/Helv 12 Tf' gives 12, '/HeBo 8.00 Tf' gives 8, '.5' gives 0.5)
\* and is undefined when the string is absent, empty or has no such
\* occurrence; no error is raised.
C4_DeclaredSizeIsFirstTfSize ==
    Returned("textField") =>
        LET s == GivenString
            occ == Occurrences(s)
        IN  /\ ~threw
            /\ occ = {} => DeclaredSize = None
            /\ occ # {} =>
                /\ DeclaredSize # None
                /\ DeclaredSize[1] = LiteralValue(FirstLiteral(s, occ))
            /\ s = Helv12 => DeclaredSize = Some(12000)
            /\ s = HeBo8 => DeclaredSize = Some(8000)
            /\ s = <<"/", "H", " ", ".", "5", " ", "T", "f">> => DeclaredSize = Some(500)
            /\ s \in {<<>>, Garbage, <<"/", "H", " ", " ", "T", "f">>,
                      <<"/", "H", " ", "-", "3", " ", "T", "f">>,
                      <<"/", "H", " ", "x", " ", "T", "f">>} => DeclaredSize = None

\* the integer digits of a numeric literal, leading zeros dropped
IntegerDigits(l) ==
    LET stops == {n \in 1..Len(l) : l[n] \notin Digits} \cup {Len(l) + 1}
        starts == {n \in 1..Len(l) : l[n] # "0"} \cup {Len(l) + 1}
        stop == CHOOSE n \in stops : \A m \in stops : n <= m
        start == CHOOSE n \in starts : \A m \in starts : n <= m
    IN  SubSeq(l, start, stop - 1)

\* whether the number a numeric literal denotes is a finite double: it is
\* below 2^1024 - 2^970
DenotesFiniteDouble(l) ==
    LET ds == IntegerDigits(l)
    IN  \/ Len(ds) < Len(DoubleOverflowDigits)
        \/ /\ Len(ds) = Len(DoubleOverflowDigits)
           /\ \E j \in 1..Len(ds) :
                /\ DigitValue(ds[j]) < DoubleOverflowDigits[j]
                /\ \A k \in 1..(j - 1) : DigitValue(ds[k]) = DoubleOverflowDigits[k]

\* C4 (amended): the declared font size is the number of the first
\* '/name size Tf' occurrence when that number is a finite double, and is
\* undefined when it is not, or when the string is absent, empty or has no
\* such occurrence; no error is raised.
C4_DeclaredSizeIsFirstFiniteTfSize ==
    Returned("textField") =>
        LET s == GivenString
            occ == Occurrences(s)
        IN  /\ ~threw
            /\ occ = {} => DeclaredSize = None
            /\ occ # {} =>
                IF DenotesFiniteDouble(FirstLiteral(s, occ))
                THEN DeclaredSize = Some(LiteralValue(FirstLiteral(s, occ)))
                ELSE DeclaredSize = None
            /\ s = Helv12 => DeclaredSize = Some(12000)
            /\ s = HeBo8 => DeclaredSize = Some(8000)
            /\ s = <<"/", "H", " ", ".", "5", " ", "T", "f">> => DeclaredSize = Some(500)
            /\ s \in {<<>>, Garbage, <<"/", "H", " ", " ", "T", "f">>,
                      <<"/", "H", " ", "-", "3", " ", "T", "f">>,
                      <<"/", "H", " ", "x", " ", "T", "f">>} => DeclaredSize = None

C4_WitnessOverflow ==
    /\ Returned("textField")
    /\ ~threw
    /\ Len(GivenString) > Len(DoubleOverflowDigits)
    /\ Occurrences(GivenString) # {}
    /\ DeclaredSize = None

C4_Witness ==
    /\ Returned("textField")
    /\ ~threw
    /\ GivenString = <<"/", "F", " ", "3", " ", "T", "f", " ", "/", "H", "\t", "\n",
                       "8", ".", "0", "0", " ", "T", "f">>
    /\ DeclaredSize = Some(3000)

\* the positioned fragments the text field content builder was given
Fragments == BuilderOptions(ret).textLines

\* C5 as stated: whenever the evenly spaced flag is set, the builder gets
\* exactly max length fragments (0 when max length is unset).
C5_FragmentsEqualMaxLengthWhenEvenlySpaced ==
    (Returned("textField") /\ ~threw /\ args.textField.evenlySpaced) =>
        Len(Fragments) = Coalesce(args.textField.maxLength, 0)

\* C5 (amended): when the evenly spaced flag is set and the multiline flag is
\* not, the builder gets exactly max length fragments (0 when max length is
\* unset); max length 5 and text 'AB' give 5 fragments.
C5_FragmentsEqualMaxLengthWhenCombedLayout ==
    (/\ Returned("textField")
     /\ ~threw
     /\ args.textField.evenlySpaced
     /\ ~args.textField.multiline) =>
        /\ args.textField.maxLength = None => Len(Fragments) = 0
        /\ args.textField.maxLength # None =>
            Len(Fragments) = args.textField.maxLength[1]

C5_Witness ==
    /\ Returned("textField")
    /\ ~threw
    /\ args.textField.evenlySpaced
    /\ ~args.textField.multiline
    /\ args.textField.maxLength = Some(5)
    /\ args.textField.text = Some("AB")
    /\ Len(Fragments) = 5

BuilderName(o) ==
    CASE o = "checkBox" -> "drawCheckBox"
      [] o = "radioGroup" -> "drawRadioButton"
      [] o = "button" -> "drawButton"
      [] o = "textField" -> "drawTextField"

GivenRotation(widget) ==
    IF widget.ap = None \/ widget.ap[1].rotation = None THEN 0
    ELSE widget.ap[1].rotation[1]

\* C6: every sequence a provider returns is the rotation transform followed
\* by exactly one builder result, nothing before the transform; the transform
\* is the same in all sequences of a call and is made of the widget rectangle
\* and the canonical rotation that also decided the width and height the
\* builder was given.
C6_TransformThenOneBuilder ==
    (pc = "returned" /\ op \in Providers /\ ~threw) =>
        \E canonical \in {0, 90, 180, 270} :
            LET rectangle == args.widget.rectangle
                transform ==
                    rotateInPlace([x |-> rectangle.x, y |-> rectangle.y,
                                   width |-> rectangle.width,
                                   height |-> rectangle.height,
                                   rotation |-> canonical])
            IN  \A q \in AllSequences(op, ret) :
                /\ q.length = Len(q.items)
                /\ q.length = Len(transform) + 1
                /\ SubSeq(q.items, 1, Len(transform)) = transform
                /\ q.items[q.length].name = BuilderName(op)
                /\ BuilderOptions(q).width =
                    (IF canonical \in {90, 270} THEN rectangle.height
                     ELSE rectangle.width)
                /\ BuilderOptions(q).height =
                    (IF canonical \in {90, 270} THEN rectangle.width
                     ELSE rectangle.height)

C6_Witness ==
    /\ Returned("checkBox")
    /\ ~threw
    /\ GivenRotation(args.widget) = 450
    /\ args.widget.rectangle.width # args.widget.rectangle.height
    /\ ret.down.unchecked.items[1].options.rotation = 90
    /\ BuilderOptions(ret.down.unchecked).width = args.widget.rectangle.height

\* C7: the border width a provider gives its builder is the width of the
\* widget's border style when there is one, and otherwise 1 in the check box
\* provider and 0 in the radio group, button and text field providers; a
\* width of 0 is kept.
C7_BorderWidthOrDefault ==
    (pc = "returned" /\ op \in Providers /\ ~threw) =>
        \A q \in AllSequences(op, ret) :
            /\ args.widget.bs # None =>
                BuilderOptions(q).borderWidth = args.widget.bs[1].width
            /\ args.widget.bs = None =>
                BuilderOptions(q).borderWidth = (IF op = "checkBox" THEN 1000 ELSE 0)

C7_Witness ==
    /\ Returned("checkBox")
    /\ ~threw
    /\ args.widget.bs = Some([width |-> 0])
    /\ BuilderOptions(ret.normal.checked).borderWidth = 0

\* C8: whatever optional inputs are absent, each of the four providers
\* returns without raising, and an absent input is replaced by its default:
\* rotation 0, no color, caption '', text '', declared size undefined, cell
\* count 0.
C8_AbsentInputsGetDefaults ==
    (pc = "returned" /\ op \in Providers) =>
        /\ ~threw
        /\ args.widget.ap = None =>
            \A q \in AllSequences(op, ret) :
                /\ q.items[1].options.rotation = 0
                /\ BuilderOptions(q).borderColor = None
                /\ BuilderOptions(q).color = None
                /\ op = "button" => BuilderOptions(q).text = ""
        /\ (op = "button" /\ args.widget.ap # None
                /\ args.widget.ap[1].captions = None) =>
            \A q \in AllSequences(op, ret) : BuilderOptions(q).text = ""
        /\ op = "textField" =>
            /\ args.textField.text = None => calls[1].text = ""
            /\ args.textField.defaultAppearance = None => DeclaredSize = None
            /\ (calls[1].fn = "combed" /\ args.textField.maxLength = None) =>
                calls[1].options.cellCount = 0

C8_Witness ==
    /\ Returned("textField")
    /\ ~threw
    /\ args.widget.ap = None
    /\ args.widget.bs = None
    /\ args.textField.text = None
    /\ args.textField.defaultAppearance = None
    /\ args.textField.maxLength = None
    /\ calls[1].fn = "combed"
    /\ Len(Fragments) = 0

\* C9 as stated: the normalizer returns a mapping over all three states, every
\* state that was not given being set to the normal value.
C9_NormalizeFillsEveryState ==
    Returned("normalizeAppearance") =>
        /\ DOMAIN ret = {"normal", "rollover", "down"}
        /\ \A k \in OptionalStates :
            ~HasKey(k, args.appearance) => ret[k] = ret.normal

\* C9 (amended): the normalizer returns a mapping in which normal is always
\* set; the states set in it are normal alone for a bare value, and for a
\* mapping exactly the states that were given: a state that was not given
\* stays unset.
C9_NormalizeSetsOnlyGivenStates ==
    Returned("normalizeAppearance") =>
        /\ HasKey("normal", ret)
        /\ DOMAIN ret =
            {"normal"} \cup
            (IF HasKey("normal", args.appearance)
             THEN DOMAIN args.appearance \cap OptionalStates
             ELSE {})

C9_Witness ==
    /\ Returned("normalizeAppearance")
    /\ ~HasKey("normal", args.appearance)
    /\ HasKey("checked", args.appearance)
    /\ DOMAIN ret = {"normal"}
    /\ ret.normal = args.appearance

\* C10: a call of the text field provider invokes exactly one layout:
\* multiline when the multiline flag is set, whatever the evenly spaced flag;
\* otherwise combed when the evenly spaced flag is set, with cellCount the max
\* length or 0; otherwise single line. The builder gets just the fragments
\* that layout returned (one fragment for single line) and the font size it
\* returned, not the declared one; the result is a bare sequence, so
\* normalizeAppearance sets normal alone.
C10_OneLayoutInFixedOrder ==
    (Returned("textField") /\ ~threw) =>
        LET f == args.textField
        IN  /\ Len(calls) = 1
            /\ f.multiline => calls[1].fn = "multiline"
            /\ (~f.multiline /\ f.evenlySpaced) =>
                /\ calls[1].fn = "combed"
                /\ calls[1].options.cellCount =
                    (IF f.maxLength = None THEN 0 ELSE f.maxLength[1])
            /\ (~f.multiline /\ ~f.evenlySpaced) => calls[1].fn = "singleline"
            /\ calls[1].fn = "multiline" => Fragments = calls[1].returned.lines
            /\ calls[1].fn = "combed" => Fragments = calls[1].returned.cells
            /\ calls[1].fn = "singleline" => Fragments = <<calls[1].returned.line>>
            /\ BuilderOptions(ret).fontSize = calls[1].returned.fontSize
            /\ ~HasKey("normal", ret)
            /\ DOMAIN normalizeAppearance(ret) = {"normal"}

C10_Witness ==
    /\ Returned("textField")
    /\ ~threw
    /\ args.textField.multiline
    /\ args.textField.evenlySpaced
    /\ args.textField.maxLength = Some(5)
    /\ calls[1].fn = "multiline"
    /\ Len(Fragments) = 2
    /\ DeclaredSize = Some(12000)
    /\ BuilderOptions(ret).fontSize = 7000

====
